---- MODULE Spec2Model ----
(***************************************************************************)
(* A model of the O-C-R/auth session store (package session) and of its    *)
(* token-bucket rate limiter, as they talk to Redis.                       *)
(*                                                                         *)
(* Spec    : the session store.  Every handler (SetSession, Session,       *)
(*           DeleteSession, InvalidateSessions) is one action made of the  *)
(*           Redis commands it issues, in order; the clock counts seconds. *)
(* SpecCap : the session store under TestCappedSessions' calls.            *)
(* SpecTTL : the session store with a session duration of two seconds.    *)
(* SpecConc: the handlers one Redis command at a time, called by           *)
(*           concurrent goroutines.                                        *)
(* SpecFail: the same, for one goroutine, when a command may fail.         *)
(* SpecOverlap: the same, for SetSession and DeleteSession only.           *)
(* SpecRL  : the rate limiter.  A caller reads time.Now() and then runs    *)
(*           the Lua script, which Redis executes as one step; the clock   *)
(*           counts nanoseconds.  SpecOneToken and SpecExpiry restrict the *)
(*           capacities the calls ask for, SpecRate follows one caller.    *)
(* SpecHTTP: the handlers of package httpauth over a set of requests.      *)
(* SpecID  : the text and binary decoders of package id.                   *)
(***************************************************************************)
EXTENDS Integers, Sequences, FiniteSets, Bags, TLC

(***************************************************************************)
(* Bounds of the model.                                                    *)
(***************************************************************************)
\* Bytes in an ID (id.ID is [20]byte; the keys only need the hex text to be
\* injective, which a shorter array shows as well).
IDLen == 2
\* Seconds the session clock may reach.
MaxTime == 2
\* SessionStoreOptions.SessionDuration of the tests (time.Second), in seconds.
TestSessionDuration == 1

\* First bytes of the session IDs.
SessionBytes == {1, 171}
\* First bytes of the session IDs TestCappedSessions-like runs insert.
CapBytes == {1, 2, 3, 4, 5, 6}

\* Payloads handed to SetSession (the tests store the strings "1" and "2").
Payloads == {"1", "2"}

\* The cap asked for by TestCappedSessions (MaxSessions: 5).
MaxSessions == 5

(***************************************************************************)
(* package id                                                              *)
(***************************************************************************)
HexChars == <<"0", "1", "2", "3", "4", "5", "6", "7",
              "8", "9", "a", "b", "c", "d", "e", "f">>

\* ID.String / ID.MarshalText: two hex characters per byte, high nibble first.
String(id) ==
    [i \in 1..(2 * Len(id)) |->
        LET b == id[(i + 1) \div 2]
        IN  IF i % 2 = 1 THEN HexChars[(b \div 16) + 1]
                         ELSE HexChars[(b % 16) + 1]]

MakeID(b) == [i \in 1..IDLen |-> IF i = 1 THEN b ELSE 255 - b]

SessionIDs == {MakeID(b) : b \in SessionBytes}
CapSessionIDs == {MakeID(b) : b \in CapBytes}

(***************************************************************************)
(* Group identifiers: the interface{} argument of SetSession and           *)
(* InvalidateSessions.  kind is the dynamic type of the value.             *)
(***************************************************************************)
NilGroup == [kind |-> "nil", id |-> <<>>, s |-> <<>>]
TextGroup(u) == [kind |-> "text", id |-> u, s |-> <<>>]
StringGroup(s) == [kind |-> "string", id |-> <<>>, s |-> s]
BytesGroup(s) == [kind |-> "bytes", id |-> <<>>, s |-> s]
OtherGroup == [kind |-> "other", id |-> <<>>, s |-> <<>>]

GroupArgs ==
    {NilGroup, OtherGroup, TextGroup(MakeID(1)), StringGroup(String(MakeID(1))),
     BytesGroup(String(MakeID(240)))}

\* interfaceToString: string and []byte as they are, a TextMarshaler by its
\* MarshalText, anything else (nil included) is an error.
interfaceToString(v) ==
    CASE v.kind = "string" -> [err |-> "nil", str |-> v.s]
      [] v.kind = "bytes"  -> [err |-> "nil", str |-> v.s]
      [] v.kind = "text"   -> [err |-> "nil", str |-> String(v.id)]
      [] OTHER             -> [err |-> "unsupported", str |-> <<>>]

\* The group strings the arguments above normalise to.
GroupStrs == {interfaceToString(g).str : g \in {x \in GroupArgs : interfaceToString(x).err = "nil"}}

(***************************************************************************)
(* Key codec.                                                              *)
(***************************************************************************)
\* A key codec that forgets the ID: every session shares one key.
sessionKey_Shared(sessionID) == <<"s">>

sessionKey(sessionID) == <<"s">> \o String(sessionID)

sessionToGroupKey(sessionID) == <<"z">> \o String(sessionID)

groupKey(groupId) == <<"g">> \o groupId

(***************************************************************************)
(* encoding/gob, as SetSession and Session use it: the payload is wrapped  *)
(* in a typed blob, and decoding a blob of another shape fails.            *)
(***************************************************************************)
GobEncode(p) == <<"gob:string", p>>

GobDecode(blob) ==
    IF Len(blob) = 2 /\ blob[1] = "gob:string"
    THEN [err |-> "nil", val |-> blob[2]]
    ELSE [err |-> "decode", val |-> ""]

(***************************************************************************)
(* Redis.  A database maps the keys that exist to their entries; exp is    *)
(* the absolute time at which the key expires, NoExpire when it has no     *)
(* time to live.                                                           *)
(***************************************************************************)
NoExpire == -1

StrEntry(v, exp) == [type |-> "string", str |-> v, set |-> {}, exp |-> exp]
SetEntry(ms, exp) == [type |-> "set", str |-> <<>>, set |-> ms, exp |-> exp]

Exists(d, k) == k \in DOMAIN d

SETEX(d, k, ttl, v, t) ==
    [x \in (DOMAIN d) \cup {k} |-> IF x = k THEN StrEntry(v, t + ttl) ELSE d[x]]

\* GET: the reply is nil (ok = FALSE) when the key does not exist.
GET(d, k) ==
    IF Exists(d, k) THEN [ok |-> TRUE, str |-> d[k].str]
                    ELSE [ok |-> FALSE, str |-> <<>>]

DEL(d, ks) == [x \in (DOMAIN d) \ ks |-> d[x]]

\* SADD creates the set, with no time to live, when the key does not exist.
SADD(d, k, ms) ==
    [x \in (DOMAIN d) \cup {k} |->
        IF x = k
        THEN IF Exists(d, k) THEN SetEntry(d[k].set \cup ms, d[k].exp)
                             ELSE SetEntry(ms, NoExpire)
        ELSE d[x]]

\* SREM removes the key itself with its last member.
SREM(d, k, ms) ==
    IF ~Exists(d, k) THEN d
    ELSE IF d[k].set \ ms = {} THEN DEL(d, {k})
    ELSE [d EXCEPT ![k] = SetEntry(d[k].set \ ms, d[k].exp)]

EXPIRE(d, k, ttl, t) ==
    IF Exists(d, k) THEN [d EXCEPT ![k].exp = t + ttl] ELSE d

SMEMBERS(d, k) == IF Exists(d, k) THEN d[k].set ELSE {}

\* Redis drops a key once its expiry time is reached.
Purge(d, t) ==
    [x \in {k \in DOMAIN d : d[k].exp = NoExpire \/ d[k].exp > t} |-> d[x]]

EmptyDB == [x \in {} |-> StrEntry(<<>>, NoExpire)]

(***************************************************************************)
(* State of the session store.                                             *)
(***************************************************************************)
VARIABLES
    sessionDuration,  \* SessionStore.sessionDuration, in seconds
    db,        \* the Redis database
    now,       \* the clock, in seconds
    ret,       \* what the last handler returned
    named,     \* the session IDs that a SetSession call has named
    fresh      \* the most recent SetSession of each session ID, while it
               \* stands: it returned no error, its TTL has not elapsed, and
               \* no DeleteSession of the ID or InvalidateSessions of its
               \* group has run since

svars == <<sessionDuration, db, now, ret, named, fresh>>

(***************************************************************************)
(* State of the rate limiter.                                              *)
(***************************************************************************)
VARIABLES
    nanos,       \* the clock, in nanoseconds
    buckets,     \* the Redis hashes of the rate limiter
    pc,          \* per caller: "idle", or "called" once time.Now() is read
    call,        \* per caller: the arguments and the time stamp of its call
    last,        \* the script run that has just ended: its arguments,
                 \* what it read and what it did
    lastAllowed, \* per client: the time stamp of the last allowed call, or 0
    allowedNow   \* per client and capacity: calls stamped with the current
                 \* time that were allowed since the clock last moved

rvars == <<nanos, buckets, pc, call, last, lastAllowed, allowedNow>>

(***************************************************************************)
(* State of the handlers when their Redis commands are taken one by one.   *)
(***************************************************************************)
VARIABLES
    proc,        \* per goroutine: the handler it is in, the command it is at,
                 \* its arguments and its local variables
    lastDel      \* the DEL of an InvalidateSessions that has just run: the
                 \* keys it was asked to delete and the keys it was not

cvars == <<proc, lastDel>>

(***************************************************************************)
(* State of the HTTP handlers and of an ID being decoded.                  *)
(***************************************************************************)
VARIABLES
    hreq,        \* the request that was served last, and by which handler
    hresp,       \* the response to it
    target,      \* an id.ID variable that UnmarshalText / UnmarshalBinary set
    idret        \* what the last call on target was given and returned

hvars == <<hreq, hresp>>

ivars == <<target, idret>>

xvars == <<cvars, hvars, ivars>>

vars == <<svars, rvars, xvars>>

NoRet == [op |-> "none", id |-> <<>>, g |-> <<>>, err |-> "nil", val |-> "",
          members |-> {}]

Forget(f, ids) == [x \in (DOMAIN f) \ ids |-> f[x]]

Remember(f, i, v) == [x \in (DOMAIN f) \cup {i} |-> IF x = i THEN v ELSE f[x]]

(***************************************************************************)
(* The handlers, as functions of the database.                             *)
(***************************************************************************)
\* Session: GET the session key, redis.ErrNil when absent, else gob-decode.
SessionCall(d, sessionID) ==
    LET reply == GET(d, sessionKey(sessionID))
    IN  IF ~reply.ok THEN [err |-> "ErrNil", val |-> ""]
        ELSE GobDecode(reply.str)

\* SetSession: SETEX the session key; with a group, normalise it, SETEX the
\* pointer key, SADD both keys to the group, EXPIRE the group.
SetSessionCall(d, sessionID, groupId, session, t) ==
    LET sKey == sessionKey(sessionID)
        d1 == SETEX(d, sKey, sessionDuration, GobEncode(session), t)
    IN  IF groupId.kind = "nil" THEN [db |-> d1, err |-> "nil"]
        ELSE LET conv == interfaceToString(groupId)
             IN  IF conv.err # "nil" THEN [db |-> d1, err |-> conv.err]
                 ELSE LET gKey == groupKey(conv.str)
                          sgKey == sessionToGroupKey(sessionID)
                          d2 == SETEX(d1, sgKey, sessionDuration, conv.str, t)
                          d3 == SADD(d2, gKey, {sKey, sgKey})
                          d4 == EXPIRE(d3, gKey, sessionDuration, t)
                      IN  [db |-> d4, err |-> "nil"]

\* An invalidation that deletes the group key and leaves its members.
InvalidateSessionsCall_GroupOnly(d, groupId) ==
    LET conv == interfaceToString(groupId)
    IN  IF conv.err # "nil" THEN [db |-> d, err |-> conv.err, members |-> {}]
        ELSE LET gKey == groupKey(conv.str)
             IN  [db |-> DEL(d, {gKey}), err |-> "nil",
                  members |-> SMEMBERS(d, gKey)]

\* InvalidateSessions: normalise the group, SMEMBERS, then one DEL of the
\* group key and every member.
InvalidateSessionsCall(d, groupId) ==
    LET conv == interfaceToString(groupId)
    IN  IF conv.err # "nil" THEN [db |-> d, err |-> conv.err, members |-> {}]
        ELSE LET gKey == groupKey(conv.str)
                 members == SMEMBERS(d, gKey)
             IN  [db |-> DEL(d, {gKey} \cup members), err |-> "nil",
                  members |-> members]

\* A deletion that returns the pointer lookup's redis.ErrNil to its caller.
DeleteSessionCall_ErrNil(d, sessionID) ==
    LET sKey == sessionKey(sessionID)
        sgKey == sessionToGroupKey(sessionID)
        d1 == DEL(d, {sKey})
        reply == GET(d1, sgKey)
    IN  IF reply.ok
        THEN [db |-> SREM(DEL(d1, {sgKey}), groupKey(reply.str), {sKey, sgKey}),
              err |-> "nil"]
        ELSE [db |-> d1, err |-> "ErrNil"]

\* A deletion that drops the whole set of the group the pointer names.
DeleteSessionCall_DropGroup(d, sessionID) ==
    LET sKey == sessionKey(sessionID)
        sgKey == sessionToGroupKey(sessionID)
        reply == GET(d, sgKey)
    IN  IF reply.ok
        THEN [db |-> DEL(d, {sKey, sgKey, groupKey(reply.str)}), err |-> "nil"]
        ELSE [db |-> DEL(d, {sKey}), err |-> "nil"]

\* DeleteSession: DEL the session key; GET the pointer key and, when it is
\* there, DEL it and SREM both keys from the group it names.
DeleteSessionCall(d, sessionID) ==
    LET sKey == sessionKey(sessionID)
        sgKey == sessionToGroupKey(sessionID)
        d1 == DEL(d, {sKey})
        reply == GET(d1, sgKey)
    IN  IF reply.ok
        THEN LET gKey == groupKey(reply.str)
                 d2 == DEL(d1, {sgKey})
                 d3 == SREM(d2, gKey, {sKey, sgKey})
             IN  [db |-> d3, err |-> "nil"]
        ELSE [db |-> d1, err |-> "nil"]

(***************************************************************************)
(* Actions of the session store.                                           *)
(***************************************************************************)
\* NewSessionStore: sessionDuration = options.SessionDuration / time.Second.
SInit ==
    /\ sessionDuration = TestSessionDuration
    /\ db = EmptyDB
    /\ now = 0
    /\ ret = NoRet
    /\ named = {}
    /\ fresh = Forget(<<>>, {})

SetSession(sessionID, groupId, session) ==
    LET r == SetSessionCall(db, sessionID, groupId, session, now)
    IN  /\ db' = r.db
        /\ ret' = [NoRet EXCEPT !.op = "SetSession", !.err = r.err]
        /\ named' = named \cup {sessionID}
        /\ fresh' = IF r.err # "nil" THEN Forget(fresh, {sessionID})
                     ELSE Remember(fresh, sessionID,
                                   [p |-> session,
                                    grouped |-> groupId.kind # "nil",
                                    g |-> interfaceToString(groupId).str])
        /\ UNCHANGED <<sessionDuration, now, rvars, xvars>>

Session(sessionID) ==
    LET r == SessionCall(db, sessionID)
    IN  /\ ret' = [NoRet EXCEPT !.op = "Session", !.id = sessionID,
                                !.err = r.err, !.val = r.val]
        /\ UNCHANGED <<sessionDuration, db, now, named, fresh, rvars, xvars>>

\* ret.g and ret.members: the group the pointer key named when the call
\* began, and the members that group's set had then.
DeleteSession(sessionID) ==
    LET r == DeleteSessionCall(db, sessionID)
        pointer == GET(db, sessionToGroupKey(sessionID))
    IN  /\ db' = r.db
        /\ ret' = [NoRet EXCEPT !.op = "DeleteSession", !.id = sessionID,
                                !.err = r.err, !.g = pointer.str,
                                !.members = IF pointer.ok
                                            THEN SMEMBERS(db, groupKey(pointer.str))
                                            ELSE {}]
        /\ fresh' = Forget(fresh, {sessionID})
        /\ UNCHANGED <<sessionDuration, now, named, rvars, xvars>>

InvalidateSessions(groupId) ==
    LET r == InvalidateSessionsCall(db, groupId)
        conv == interfaceToString(groupId)
    IN  /\ db' = r.db
        /\ ret' = [NoRet EXCEPT !.op = "InvalidateSessions", !.g = conv.str,
                                !.err = r.err, !.members = r.members]
        /\ fresh' = IF r.err # "nil" THEN fresh
                     ELSE Forget(fresh, {i \in DOMAIN fresh :
                                            fresh[i].grouped /\ fresh[i].g = conv.str})
        /\ UNCHANGED <<sessionDuration, now, named, rvars, xvars>>

\* A second passes: the keys whose time to live has run out are gone.
Tick ==
    /\ now < MaxTime
    /\ now' = now + 1
    /\ db' = Purge(db, now + 1)
    /\ fresh' = Forget(fresh, {i \in DOMAIN fresh :
                                  ~Exists(Purge(db, now + 1), sessionKey(i))})
    /\ UNCHANGED <<sessionDuration, ret, named, rvars, xvars>>

SNext ==
    \/ \E i \in SessionIDs, g \in GroupArgs, p \in Payloads : SetSession(i, g, p)
    \/ \E i \in SessionIDs : Session(i)
    \/ \E i \in SessionIDs : DeleteSession(i)
    \/ \E g \in GroupArgs : InvalidateSessions(g)
    \/ Tick


(***************************************************************************)
(* The rate limiter.                                                       *)
(*                                                                         *)
(* Token counts are kept in units of 1/TokenDen of a token, so that the    *)
(* fractional counts a refill leaves are exact; a rate is a number of      *)
(* such units per nanosecond.  Time stamps are nanoseconds.                *)
(***************************************************************************)
\* Units per token.
TokenDen == 2
\* Goroutines calling RateLimitCount.
NumCallers == 2
\* Milliseconds the rate limiter's clock may reach, and the nanoseconds it
\* may go beyond a whole millisecond.
MaxMillis == 1
MaxFineNanos == 3
\* PEXPIRE counts milliseconds.
NanosPerMilli == 1000000
\* The script's divisor of the refill time (1e3).
ScriptDivisor == 1000

Callers == 1..NumCallers
Clients == {<<"u", "1">>}
\* bucketRate arguments, in units per nanosecond.
Rates == {1, 2}
\* bucketCapacity arguments, in tokens.
Capacities == {1, 2}
\* A bucketCapacity, in tokens, that takes more than a microsecond to
\* refill at these rates.
BigCapacity == 501
AllCapacities == Capacities \cup {BigCapacity}
\* How far the clock moves in one step.
TimeSteps == {1, NanosPerMilli}

rateLimitKey(client) == <<"b">> \o client

Min(a, b) == IF a < b THEN a ELSE b

\* math.ceil(x / y) for x >= 0 and y > 0.
CeilDiv(x, y) == (x + y - 1) \div y

\* HMGET key 1 2: both fields, or nil for each when the key does not exist.
HMGET(bs, k) ==
    IF k \in DOMAIN bs THEN [ok |-> TRUE, t |-> bs[k].t, b |-> bs[k].b]
                       ELSE [ok |-> FALSE, t |-> 0, b |-> 0]

\* HMSET key 1 t 2 b followed by PEXPIRE key ms, at server time at: a time to
\* live that is not positive deletes the key.
HMSETPEXPIRE(bs, k, t, b, ms, at) ==
    IF ms <= 0 THEN [x \in (DOMAIN bs) \ {k} |-> bs[x]]
    ELSE [x \in (DOMAIN bs) \cup {k} |->
            IF x = k THEN [t |-> t, b |-> b, exp |-> at + ms * NanosPerMilli]
            ELSE bs[x]]

PurgeBuckets(bs, at) == [x \in {k \in DOMAIN bs : bs[k].exp > at} |-> bs[x]]

\* A script that takes every bucket for a missing one.
tokenBucket_AlwaysFresh(bucket, rate, capacity, t1) ==
    [err |-> "nil", ok |-> IF capacity > 0 THEN 1 ELSE 0, wrote |-> TRUE,
     t |-> t1, b |-> IF capacity > 0 THEN capacity - TokenDen ELSE capacity,
     ms |-> CeilDiv(IF capacity > 0 THEN TokenDen ELSE 0, rate * ScriptDivisor)]

\* A script that refills whatever the order of the two time stamps.
tokenBucket_NoGuard(bucket, rate, capacity, t1) ==
    LET b2 == IF ~bucket.ok THEN capacity
              ELSE Min(capacity, bucket.b + (t1 - bucket.t) * rate)
        b3 == IF b2 > 0 THEN b2 - TokenDen ELSE b2
    IN  [err |-> "nil", ok |-> IF b2 > 0 THEN 1 ELSE 0, wrote |-> TRUE,
         t |-> t1, b |-> b3, ms |-> CeilDiv(capacity - b3, rate * ScriptDivisor)]

\* The Lua script tokenBucket, on the reply of its HMGET.  The fields of an
\* existing bucket are strings; bucket[2] becomes a number when the bucket
\* is missing (tonumber) or refilled (math.min), and stays a string
\* otherwise, in which case the comparison bucket[2] > 0 of a string with a
\* number raises a Lua error and the script ends before its HMSET.
\* ARGV[3] > bucket[1] compares two decimal strings of the same length,
\* which is the order of the numbers.
tokenBucket(bucket, rate, capacity, t1) ==
    LET b2 == IF ~bucket.ok THEN [type |-> "number", v |-> capacity]
              ELSE IF t1 > bucket.t
                   THEN [type |-> "number",
                         v |-> Min(capacity, bucket.b + (t1 - bucket.t) * rate)]
                   ELSE [type |-> "string", v |-> bucket.b]
    IN  IF b2.type = "string"
        THEN [err |-> "script", ok |-> 0, wrote |-> FALSE, t |-> bucket.t,
              b |-> bucket.b, ms |-> 0]
        ELSE LET ok == IF b2.v > 0 THEN 1 ELSE 0
                 b3 == IF b2.v > 0 THEN b2.v - TokenDen ELSE b2.v
             IN  [err |-> "nil", ok |-> ok, wrote |-> TRUE, t |-> t1, b |-> b3,
                  ms |-> CeilDiv(capacity - b3, rate * ScriptDivisor)]

\* What RateLimitCount returns for the script's reply.
RateLimitCountResult(r) ==
    IF r.err # "nil" THEN "ScriptError"
    ELSE IF r.ok = 0 THEN "RateLimitExceeded"
    ELSE "nil"

NoCall == [client |-> <<>>, rate |-> 0, capacity |-> 0, t1 |-> 0]

NoLast == [op |-> "none", client |-> <<>>, rate |-> 0, capacity |-> 0, t1 |-> 0,
           existed |-> FALSE, t0 |-> 0, b0 |-> 0, out |-> "nil",
           wrote |-> FALSE, after |-> 0, allowedBefore |-> 0]

RInit ==
    /\ nanos = 1
    /\ buckets = [x \in {} |-> [t |-> 0, b |-> 0, exp |-> 0]]
    /\ pc = [p \in Callers |-> "idle"]
    /\ call = [p \in Callers |-> NoCall]
    /\ last = NoLast
    /\ lastAllowed = [c \in Clients |-> 0]
    /\ allowedNow = [x \in Clients \X AllCapacities |-> 0]

\* RateLimitCount, up to its arguments: time.Now().UnixNano() is read.
RateLimitCountNow(p, client, rate, capacity) ==
    /\ pc[p] = "idle"
    /\ pc' = [pc EXCEPT ![p] = "called"]
    /\ call' = [call EXCEPT ![p] = [client |-> client, rate |-> rate,
                                    capacity |-> capacity * TokenDen, t1 |-> nanos]]
    /\ last' = NoLast
    /\ UNCHANGED <<nanos, buckets, lastAllowed, allowedNow, svars, xvars>>

\* RateLimitCount, the script: Redis runs it as one step.
RateLimitCountScript(p) ==
    LET c == call[p]
        key == rateLimitKey(c.client)
        bucket == HMGET(buckets, key)
        r == tokenBucket(bucket, c.rate, c.capacity, c.t1)
        out == RateLimitCountResult(r)
    IN  /\ pc[p] = "called"
        /\ pc' = [pc EXCEPT ![p] = "idle"]
        /\ call' = [call EXCEPT ![p] = NoCall]
        /\ buckets' = IF r.wrote
                      THEN HMSETPEXPIRE(buckets, key, r.t, r.b, r.ms, nanos)
                      ELSE buckets
        /\ last' = [op |-> "script", client |-> c.client, rate |-> c.rate,
                    capacity |-> c.capacity, t1 |-> c.t1,
                    existed |-> bucket.ok, t0 |-> bucket.t, b0 |-> bucket.b,
                    out |-> out, wrote |-> r.wrote, after |-> r.b,
                    allowedBefore |-> lastAllowed[c.client]]
        /\ lastAllowed' = IF out = "nil"
                          THEN [lastAllowed EXCEPT ![c.client] = c.t1]
                          ELSE lastAllowed
        /\ allowedNow' =
              IF out = "nil" /\ c.t1 = nanos
              THEN [allowedNow EXCEPT ![<<c.client, c.capacity \div TokenDen>>] = @ + 1]
              ELSE allowedNow
        /\ UNCHANGED <<nanos, svars, xvars>>

\* Time passes: the buckets whose time to live has run out are gone.
Advance(d) ==
    /\ (nanos + d) \div NanosPerMilli <= MaxMillis
    /\ (nanos + d) % NanosPerMilli <= MaxFineNanos
    /\ nanos' = nanos + d
    /\ buckets' = PurgeBuckets(buckets, nanos + d)
    /\ allowedNow' = [x \in Clients \X AllCapacities |-> 0]
    /\ last' = NoLast
    /\ UNCHANGED <<pc, call, lastAllowed, svars, xvars>>

RNext ==
    \/ \E p \in Callers, c \in Clients, r \in Rates, n \in Capacities :
          RateLimitCountNow(p, c, r, n)
    \/ \E p \in Callers : RateLimitCountScript(p)
    \/ \E d \in TimeSteps : Advance(d)

(***************************************************************************)
(* package id: the text and binary codecs of an ID.  A text is a sequence  *)
(* of characters, binary data a sequence of bytes.                         *)
(***************************************************************************)
\* Byte values the IDs of the codec runs are made of.
IDBytes == {0, 171, 255}

IDs == [1..IDLen -> IDBytes]

ZeroID == [i \in 1..IDLen |-> 0]

UpperHexChars == <<"A", "B", "C", "D", "E", "F">>

IsHexChar(c) ==
    \/ \E n \in 1..16 : HexChars[n] = c
    \/ \E n \in 1..6 : UpperHexChars[n] = c

\* encoding/hex's fromHexChar: digits, a-f and A-F.
HexVal(c) ==
    IF \E n \in 1..16 : HexChars[n] = c
    THEN (CHOOSE n \in 1..16 : HexChars[n] = c) - 1
    ELSE (CHOOSE n \in 1..6 : UpperHexChars[n] = c) + 9

\* hex.Encode: for each byte v, hextable[v >> 4] then hextable[v & 0x0f].
RECURSIVE HexEncode(_)
HexEncode(data) ==
    IF data = <<>> THEN <<>>
    ELSE <<HexChars[(Head(data) \div 16) + 1], HexChars[(Head(data) % 16) + 1]>>
            \o HexEncode(Tail(data))

\* hex.Decode: a character that is no hex digit is an InvalidByteError, an
\* odd number of characters is ErrLength, else one byte per two characters.
HexDecode(text) ==
    IF \E n \in 1..Len(text) : ~IsHexChar(text[n])
    THEN [err |-> "hex.InvalidByteError", data |-> <<>>]
    ELSE IF Len(text) % 2 = 1
    THEN [err |-> "hex.ErrLength", data |-> <<>>]
    ELSE [err |-> "nil",
          data |-> [n \in 1..(Len(text) \div 2) |->
                       16 * HexVal(text[2 * n - 1]) + HexVal(text[2 * n])]]

MarshalText(id) == [err |-> "nil", text |-> HexEncode(id)]

MarshalBinary(id) == [err |-> "nil", data |-> id]

\* copy(id[:], data): the first min(len(id), len(data)) bytes are overwritten.
Copy(id, data) ==
    [n \in 1..Len(id) |-> IF n <= Len(data) THEN data[n] ELSE id[n]]

\* A decoder that copies before it checks the length.
UnmarshalTextCall_CopyFirst(id, text) ==
    LET r == HexDecode(text)
    IN  IF r.err # "nil" THEN [err |-> r.err, id |-> id]
        ELSE IF Len(r.data) # Len(id)
        THEN [err |-> "InvalidIDError", id |-> Copy(id, r.data)]
        ELSE [err |-> "nil", id |-> Copy(id, r.data)]

\* ID.UnmarshalText: hex-decode, InvalidIDError unless len(id) bytes came
\* out, then copy.
UnmarshalTextCall(id, text) ==
    LET r == HexDecode(text)
    IN  IF r.err # "nil" THEN [err |-> r.err, id |-> id]
        ELSE IF Len(r.data) # Len(id) THEN [err |-> "InvalidIDError", id |-> id]
        ELSE [err |-> "nil", id |-> Copy(id, r.data)]

\* ID.UnmarshalBinary: InvalidIDError unless data has len(id) bytes, then copy.
UnmarshalBinaryCall(id, data) ==
    IF Len(data) # Len(id) THEN [err |-> "InvalidIDError", id |-> id]
    ELSE [err |-> "nil", id |-> Copy(id, data)]

\* Texts handed to UnmarshalText: the encodings of the IDs, the same in
\* upper case, one byte short, one byte long, one character short, and with
\* a character that is no hex digit.
UpperCase(text) ==
    [n \in 1..Len(text) |->
        IF \E m \in 11..16 : HexChars[m] = text[n]
        THEN UpperHexChars[(CHOOSE m \in 11..16 : HexChars[m] = text[n]) - 10]
        ELSE text[n]]

Texts ==
    UNION {{HexEncode(i), UpperCase(HexEncode(i)),
            SubSeq(HexEncode(i), 1, 2 * IDLen - 2), HexEncode(i) \o <<"0", "0">>,
            SubSeq(HexEncode(i), 1, 2 * IDLen - 1),
            <<"g">> \o SubSeq(HexEncode(i), 2, 2 * IDLen)} : i \in IDs}

\* Data handed to UnmarshalBinary: the IDs, one byte short and one byte long.
Datas == UNION {{i, SubSeq(i, 1, IDLen - 1), i \o <<0>>} : i \in IDs}

NoIDRet == [op |-> "none", text |-> <<>>, data |-> <<>>, err |-> "nil",
            before |-> ZeroID]

IInit ==
    /\ target = ZeroID
    /\ idret = NoIDRet

UnmarshalText(text) ==
    LET r == UnmarshalTextCall(target, text)
    IN  /\ target' = r.id
        /\ idret' = [NoIDRet EXCEPT !.op = "UnmarshalText", !.text = text,
                                    !.err = r.err, !.before = target]
        /\ UNCHANGED <<svars, rvars, cvars, hvars>>

UnmarshalBinary(data) ==
    LET r == UnmarshalBinaryCall(target, data)
    IN  /\ target' = r.id
        /\ idret' = [NoIDRet EXCEPT !.op = "UnmarshalBinary", !.data = data,
                                    !.err = r.err, !.before = target]
        /\ UNCHANGED <<svars, rvars, cvars, hvars>>

INext ==
    \/ \E text \in Texts : UnmarshalText(text)
    \/ \E data \in Datas : UnmarshalBinary(data)

(***************************************************************************)
(* package httpauth.  Header and form values are sequences of characters,  *)
(* user names and passwords sequences of bytes.                            *)
(***************************************************************************)
B64Chars == <<"A", "B", "C", "D", "E", "F", "G", "H",
              "I", "J", "K", "L", "M", "N", "O", "P",
              "Q", "R", "S", "T", "U", "V", "W", "X",
              "Y", "Z", "a", "b", "c", "d", "e", "f",
              "g", "h", "i", "j", "k", "l", "m", "n",
              "o", "p", "q", "r", "s", "t", "u", "v",
              "w", "x", "y", "z", "0", "1", "2", "3",
              "4", "5", "6", "7", "8", "9", "+", "/">>

IsB64Char(c) == \E n \in 1..64 : B64Chars[n] = c

B64Val(c) == (CHOOSE n \in 1..64 : B64Chars[n] = c) - 1

\* base64.StdEncoding.EncodeToString: three bytes make four characters, the
\* last group is padded with "=".
RECURSIVE B64Encode(_)
B64Encode(data) ==
    IF data = <<>> THEN <<>>
    ELSE LET k == IF Len(data) >= 3 THEN 3 ELSE Len(data)
             b1 == data[1]
             b2 == IF k >= 2 THEN data[2] ELSE 0
             b3 == IF k >= 3 THEN data[3] ELSE 0
             v == b1 * 65536 + b2 * 256 + b3
         IN  <<B64Chars[(v \div 262144) + 1],
               B64Chars[((v \div 4096) % 64) + 1],
               IF k >= 2 THEN B64Chars[((v \div 64) % 64) + 1] ELSE "=",
               IF k >= 3 THEN B64Chars[(v % 64) + 1] ELSE "=">>
                \o B64Encode(SubSeq(data, k + 1, Len(data)))

\* base64.StdEncoding.DecodeString: groups of four characters of the
\* alphabet, the last one padded with one or two "="; anything else is a
\* CorruptInputError.
B64Decode(text) ==
    LET n == Len(text)
        pad == IF n >= 2 /\ text[n] = "=" /\ text[n - 1] = "=" THEN 2
               ELSE IF n >= 1 /\ text[n] = "=" THEN 1 ELSE 0
        val(i) == IF i > n - pad THEN 0 ELSE B64Val(text[i])
        group(q) == val(4 * q - 3) * 262144 + val(4 * q - 2) * 4096
                       + val(4 * q - 1) * 64 + val(4 * q)
    IN  IF n % 4 # 0 \/ \E i \in 1..(n - pad) : ~IsB64Char(text[i])
        THEN [err |-> "base64.CorruptInputError", data |-> <<>>]
        ELSE [err |-> "nil",
              data |-> [j \in 1..(3 * (n \div 4) - pad) |->
                           LET g == group(((j - 1) \div 3) + 1)
                           IN  CASE j % 3 = 1 -> g \div 65536
                                 [] j % 3 = 2 -> (g \div 256) % 256
                                 [] OTHER -> g % 256]]

BasicScheme == <<"B", "a", "s", "i", "c">>
BearerScheme == <<"B", "e", "a", "r", "e", "r">>

RECURSIVE SkipSpace(_)
SkipSpace(text) ==
    IF text # <<>> /\ Head(text) = " " THEN SkipSpace(Tail(text)) ELSE text

RECURSIVE Token(_)
Token(text) ==
    IF text = <<>> \/ Head(text) = " " THEN <<>>
    ELSE <<Head(text)>> \o Token(Tail(text))

\* fmt.Sscanf(text, scheme + " %s", &token): the text must begin with the
\* scheme; the space of the format takes one or more spaces, or the end of
\* the text; the token is the run of characters up to the next space and
\* must not be empty; what follows it is not read.
Sscanf(text, scheme) ==
    IF Len(text) < Len(scheme) \/ SubSeq(text, 1, Len(scheme)) # scheme
    THEN [err |-> "input does not match format", token |-> <<>>]
    ELSE LET after == SubSeq(text, Len(scheme) + 1, Len(text))
             rest == SkipSpace(after)
         IN  IF after # <<>> /\ Head(after) # " "
             THEN [err |-> "expected space in input to match format",
                   token |-> <<>>]
             ELSE IF rest = <<>> THEN [err |-> "unexpected EOF", token |-> <<>>]
             ELSE [err |-> "nil", token |-> Token(rest)]

\* bytes.SplitN(data, ":", 2): at the first colon, or one part without one.
Colon == 58

SplitN(data) ==
    IF \E i \in 1..Len(data) : data[i] = Colon
    THEN LET i == CHOOSE i \in 1..Len(data) :
                     data[i] = Colon /\ \A j \in 1..(i - 1) : data[j] # Colon
         IN  <<SubSeq(data, 1, i - 1), SubSeq(data, i + 1, Len(data))>>
    ELSE <<data>>

\* NewSingleUserAuthenticator("u", "p:") and NewSingleTokenAuthenticator.
ConfUsername == <<117>>
ConfPassword == <<112, Colon>>
ConfToken == MakeID(171)
OtherToken == MakeID(1)

\* The authenticators: the single-user and single-token ones of the package,
\* and one whose lookup fails.
Authenticators == {"single", "failing"}

\* UserAuthenticator.AuthenticateUser.
AuthenticateUser(a, username, password) ==
    IF a = "failing" THEN [info |-> <<>>, authentic |-> TRUE, err |-> "lookup"]
    ELSE IF username # ConfUsername \/ password # ConfPassword
    THEN [info |-> <<>>, authentic |-> FALSE, err |-> "nil"]
    ELSE [info |-> username, authentic |-> TRUE, err |-> "nil"]

\* TokenAuthenticator.AuthenticateToken.
AuthenticateToken(a, id) ==
    IF a = "failing" THEN [info |-> <<>>, authentic |-> TRUE, err |-> "lookup"]
    ELSE IF id # ConfToken
    THEN [info |-> <<>>, authentic |-> FALSE, err |-> "nil"]
    ELSE [info |-> id, authentic |-> TRUE, err |-> "nil"]

AuthResult(authentic, err, info, challenge) ==
    [authentic |-> authentic, err |-> err, info |-> info, challenge |-> challenge]

\* BasicAuthentication; challenge tells that www-authenticate was set.
BasicAuthentication(a, req) ==
    LET scan == Sscanf(req.authorization, BasicScheme)
    IN  IF scan.err # "nil" THEN AuthResult(FALSE, "nil", <<>>, TRUE)
        ELSE LET dec == B64Decode(scan.token)
             IN  IF dec.err # "nil" THEN AuthResult(FALSE, "nil", <<>>, TRUE)
                 ELSE LET usernamePassword == SplitN(dec.data)
                      IN  IF Len(usernamePassword) # 2
                          THEN AuthResult(FALSE, "nil", <<>>, FALSE)
                          ELSE LET r == AuthenticateUser(a, usernamePassword[1],
                                                         usernamePassword[2])
                               IN  IF r.err # "nil"
                                   THEN AuthResult(FALSE, r.err, <<>>, TRUE)
                                   ELSE IF ~r.authentic
                                   THEN AuthResult(FALSE, "nil", <<>>, FALSE)
                                   ELSE AuthResult(r.authentic, "nil", r.info, FALSE)

\* BearerAuthentication: the access_token form value or, when that is
\* empty, the Bearer token of the authorization header.
BearerAuthentication(a, req) ==
    LET scan == Sscanf(req.authorization, BearerScheme)
        tokenString == IF req.access_token # <<>> THEN req.access_token
                       ELSE scan.token
    IN  IF req.access_token = <<>> /\ scan.err # "nil"
        THEN AuthResult(FALSE, "nil", <<>>, FALSE)
        ELSE LET token == UnmarshalTextCall(ZeroID, tokenString)
             IN  IF token.err # "nil" THEN AuthResult(FALSE, "nil", <<>>, FALSE)
                 ELSE LET r == AuthenticateToken(a, token.id)
                      IN  IF r.err # "nil" THEN AuthResult(FALSE, r.err, <<>>, FALSE)
                          ELSE IF ~r.authentic
                          THEN AuthResult(FALSE, "nil", <<>>, FALSE)
                          ELSE AuthResult(TRUE, "nil", r.info, FALSE)

\* The AuthenticationFunc values: the two above over each authenticator,
\* and functions that return a fixed (authentic, err).
AuthenticationFuncs ==
    {[kind |-> k, a |-> a, authentic |-> FALSE, err |-> "nil"] :
        k \in {"Basic", "Bearer"}, a \in Authenticators}
    \cup {[kind |-> "Func", a |-> "none", authentic |-> b, err |-> e] :
             b \in BOOLEAN, e \in {"nil", "failed"}}

AuthenticationFunc(fn, req) ==
    CASE fn.kind = "Basic" -> BasicAuthentication(fn.a, req)
      [] fn.kind = "Bearer" -> BearerAuthentication(fn.a, req)
      [] OTHER -> AuthResult(fn.authentic, fn.err, <<>>, FALSE)

StatusInternalServerError == 500
StatusUnauthorized == 401

\* status 0: no status was written before the handler that served.
Response(status, served, r) ==
    [status |-> status, served |-> served, info |-> r.info,
     challenge |-> r.challenge]

\* A gate that looks at authentic before it looks at err.
AuthenticationHandlerCall_ErrLast(fn, req) ==
    LET r == AuthenticationFunc(fn, req)
    IN  IF r.authentic THEN Response(0, "handler", r)
        ELSE IF r.err # "nil" THEN Response(StatusInternalServerError, "none", r)
        ELSE Response(StatusUnauthorized, "none", r)

\* AuthenticationHandler's handler function.
AuthenticationHandlerCall(fn, req) ==
    LET r == AuthenticationFunc(fn, req)
    IN  IF r.err # "nil" THEN Response(StatusInternalServerError, "none", r)
        ELSE IF ~r.authentic THEN Response(StatusUnauthorized, "none", r)
        ELSE Response(0, "handler", r)

\* A fallback wrapper that hands an erring request to the fallback handler.
AuthenticationFallbackHandlerCall_ErrFallback(fn, req) ==
    LET r == AuthenticationFunc(fn, req)
    IN  IF r.err # "nil" \/ ~r.authentic THEN Response(0, "fallback", r)
        ELSE Response(0, "handler", r)

\* AuthenticationFallbackHandler's handler function.
AuthenticationFallbackHandlerCall(fn, req) ==
    LET r == AuthenticationFunc(fn, req)
    IN  IF r.err # "nil" THEN Response(StatusInternalServerError, "none", r)
        ELSE IF ~r.authentic THEN Response(0, "fallback", r)
        ELSE Response(0, "handler", r)

\* The requests.  creds and tokens are what the client put into the
\* request: the user name and password it encoded as Basic credentials, the
\* tokens it presented.
Request(authorization, accessToken, creds, tokens) ==
    [authorization |-> authorization, access_token |-> accessToken,
     creds |-> creds, tokens |-> tokens]

PresentedCreds ==
    {<<ConfUsername, ConfPassword>>, <<ConfUsername, <<112>>>>,
     <<<<118>>, ConfPassword>>, <<ConfUsername, <<>>>>}

BasicCredentials(c) == B64Encode(c[1] \o <<Colon>> \o c[2])

BasicRequests ==
    UNION {{Request(BasicScheme \o <<" ">> \o BasicCredentials(c), <<>>, {c}, {}),
            Request(BasicScheme \o <<" ", " ">> \o BasicCredentials(c) \o <<" ", "x">>,
                    <<>>, {c}, {}),
            Request(BasicScheme \o BasicCredentials(c), <<>>, {c}, {}),
            Request(<<"b", "a", "s", "i", "c", " ">> \o BasicCredentials(c),
                    <<>>, {c}, {})} : c \in PresentedCreds}
    \cup {Request(<<>>, <<>>, {}, {}),
          Request(BasicScheme, <<>>, {}, {}),
          Request(BasicScheme \o <<" ", "!", "!", "!", "!">>, <<>>, {}, {}),
          Request(BasicScheme \o <<" ">> \o B64Encode(ConfUsername \o ConfPassword),
                  <<>>, {}, {})}

BearerRequests ==
    UNION {{Request(BearerScheme \o <<" ">> \o HexEncode(t), <<>>, {}, {t}),
            Request(BearerScheme \o <<" ">> \o UpperCase(HexEncode(t)), <<>>, {}, {t}),
            Request(<<>>, HexEncode(t), {}, {t}),
            Request(BearerScheme \o <<" ">> \o HexEncode(ConfToken), HexEncode(t),
                    {}, {t, ConfToken}),
            Request(BearerScheme \o <<" ">> \o HexEncode(t) \o <<"0", "0">>, <<>>,
                    {}, {})} : t \in {ConfToken, OtherToken}}
    \cup {Request(BearerScheme, <<>>, {}, {}),
          Request(BearerScheme \o <<" ", "z", "z">>, <<>>, {}, {})}

Requests == BasicRequests \cup BearerRequests

NoRequest == [wrapper |-> "none", fn |-> [kind |-> "Func", a |-> "none",
                                          authentic |-> FALSE, err |-> "nil"],
              req |-> Request(<<>>, <<>>, {}, {}),
              authentic |-> FALSE, err |-> "nil"]

HInit ==
    /\ hreq = NoRequest
    /\ hresp = Response(0, "none", AuthResult(FALSE, "nil", <<>>, FALSE))

AuthenticationHandler(fn, req) ==
    LET r == AuthenticationFunc(fn, req)
    IN  /\ hreq' = [wrapper |-> "AuthenticationHandler", fn |-> fn, req |-> req,
                    authentic |-> r.authentic, err |-> r.err]
        /\ hresp' = AuthenticationHandlerCall(fn, req)
        /\ UNCHANGED <<svars, rvars, cvars, ivars>>

AuthenticationFallbackHandler(fn, req) ==
    LET r == AuthenticationFunc(fn, req)
    IN  /\ hreq' = [wrapper |-> "AuthenticationFallbackHandler", fn |-> fn,
                    req |-> req, authentic |-> r.authentic, err |-> r.err]
        /\ hresp' = AuthenticationFallbackHandlerCall(fn, req)
        /\ UNCHANGED <<svars, rvars, cvars, ivars>>

HNext ==
    \/ \E fn \in AuthenticationFuncs, req \in Requests : AuthenticationHandler(fn, req)
    \/ \E fn \in AuthenticationFuncs, req \in Requests :
          AuthenticationFallbackHandler(fn, req)

(***************************************************************************)
(* The handlers of the session store, one Redis command at a time.         *)
(* Goroutines call the handlers concurrently; Redis runs each command as   *)
(* one step.  A command may fail (the connection is refused or the         *)
(* authentication is rejected), in which case it changes nothing and       *)
(* conn.Do returns an error.  The clock stands still.                      *)
(***************************************************************************)
\* Goroutines calling the session store.
NumProcs == 2

Procs == 1..NumProcs

\* The group the concurrent calls name.
ConcGroups == {TextGroup(MakeID(1))}

Idle == [pc |-> "idle", op |-> "none", id |-> <<>>, gstr |-> <<>>,
         members |-> {}, failed |-> FALSE, between |-> {}]

\* res is what the goroutine's last call returned: failed tells that one of
\* its commands failed, between names the sessions whose SetSession began
\* between the SMEMBERS and the DEL of the call.
NoRes == [op |-> "none", id |-> <<>>, err |-> "nil", failed |-> FALSE,
          between |-> {}]

NoDel == [op |-> "none", asked |-> {}, before |-> {}]

CInit ==
    /\ proc = [p \in Procs |-> [cur |-> Idle, res |-> NoRes]]
    /\ lastDel = NoDel

\* The goroutine returns err from the handler it is in.
Return(p, op, id, err, failed, between) ==
    [proc EXCEPT ![p] = [cur |-> Idle,
                         res |-> [op |-> op, id |-> id, err |-> err,
                                  failed |-> failed, between |-> between]]]

\* The goroutine goes on to the command at of the handler it is in.
Goto(pr, p, at, op, id, gstr, members) ==
    [pr EXCEPT ![p].cur = [pc |-> at, op |-> op, id |-> id, gstr |-> gstr,
                           members |-> members, failed |-> FALSE,
                           between |-> pr[p].cur.between]]

\* Session: GET and decode.
SessionGET(p, sessionID, f) ==
    /\ proc[p].cur.pc = "idle"
    /\ proc' = IF f THEN Return(p, "Session", sessionID, "StoreError", TRUE, {})
               ELSE Return(p, "Session", sessionID, SessionCall(db, sessionID).err,
                           FALSE, {})
    /\ lastDel' = NoDel
    /\ UNCHANGED <<svars, rvars, hvars, ivars>>

\* SetSession, first command: SETEX of the session key; then the group is
\* normalised.
SetSessionSETEX(p, sessionID, groupId, session, f) ==
    LET sKey == sessionKey(sessionID)
        conv == interfaceToString(groupId)
        noted == [q \in Procs |->
                    IF proc[q].cur.pc = "del"
                    THEN [proc[q] EXCEPT !.cur.between = @ \cup {sessionID}]
                    ELSE proc[q]]
    IN  /\ proc[p].cur.pc = "idle"
        /\ db' = IF f THEN db
                 ELSE SETEX(db, sKey, sessionDuration, GobEncode(session), now)
        /\ proc' =
              IF f THEN Return(p, "SetSession", sessionID, "StoreError", TRUE, {})
              ELSE IF groupId.kind = "nil"
              THEN [noted EXCEPT ![p] = [cur |-> Idle,
                        res |-> [NoRes EXCEPT !.op = "SetSession", !.id = sessionID]]]
              ELSE IF conv.err # "nil"
              THEN [noted EXCEPT ![p] = [cur |-> Idle,
                        res |-> [NoRes EXCEPT !.op = "SetSession", !.id = sessionID,
                                              !.err = conv.err]]]
              ELSE Goto(noted, p, "SETEX", "SetSession", sessionID, conv.str, {})
        /\ lastDel' = NoDel
        /\ UNCHANGED <<sessionDuration, now, ret, named, fresh, rvars, hvars, ivars>>

\* SetSession, second command: SETEX of the pointer key.
SetSessionSETEXPointer(p, f) ==
    LET c == proc[p].cur
    IN  /\ c.op = "SetSession" /\ c.pc = "SETEX"
        /\ db' = IF f THEN db
                 ELSE SETEX(db, sessionToGroupKey(c.id), sessionDuration, c.gstr, now)
        /\ proc' = IF f THEN Return(p, "SetSession", c.id, "StoreError", TRUE, {})
                   ELSE Goto(proc, p, "SADD", "SetSession", c.id, c.gstr, {})
        /\ lastDel' = NoDel
        /\ UNCHANGED <<sessionDuration, now, ret, named, fresh, rvars, hvars, ivars>>

\* SetSession, third command: SADD of both keys to the group's set.
SetSessionSADD(p, f) ==
    LET c == proc[p].cur
    IN  /\ c.op = "SetSession" /\ c.pc = "SADD"
        /\ db' = IF f THEN db
                 ELSE SADD(db, groupKey(c.gstr),
                           {sessionKey(c.id), sessionToGroupKey(c.id)})
        /\ proc' = IF f THEN Return(p, "SetSession", c.id, "StoreError", TRUE, {})
                   ELSE Goto(proc, p, "EXPIRE", "SetSession", c.id, c.gstr, {})
        /\ lastDel' = NoDel
        /\ UNCHANGED <<sessionDuration, now, ret, named, fresh, rvars, hvars, ivars>>

\* SetSession, fourth command: EXPIRE of the group's set.
SetSessionEXPIRE(p, f) ==
    LET c == proc[p].cur
    IN  /\ c.op = "SetSession" /\ c.pc = "EXPIRE"
        /\ db' = IF f THEN db
                 ELSE EXPIRE(db, groupKey(c.gstr), sessionDuration, now)
        /\ proc' = Return(p, "SetSession", c.id,
                          IF f THEN "StoreError" ELSE "nil", f, {})
        /\ lastDel' = NoDel
        /\ UNCHANGED <<sessionDuration, now, ret, named, fresh, rvars, hvars, ivars>>

\* DeleteSession, first command: DEL of the session key.
DeleteSessionDEL(p, sessionID, f) ==
    /\ proc[p].cur.pc = "idle"
    /\ db' = IF f THEN db ELSE DEL(db, {sessionKey(sessionID)})
    /\ proc' = IF f THEN Return(p, "DeleteSession", sessionID, "StoreError", TRUE, {})
               ELSE Goto(proc, p, "GET", "DeleteSession", sessionID, <<>>, {})
    /\ lastDel' = NoDel
    /\ UNCHANGED <<sessionDuration, now, ret, named, fresh, rvars, hvars, ivars>>

\* DeleteSession, second command: GET of the pointer key.  The handler goes
\* on to the group when err == nil and returns nil otherwise, whether the
\* error is redis.ErrNil or the failure of the command.
DeleteSessionGET(p, f) ==
    LET c == proc[p].cur
        reply == GET(db, sessionToGroupKey(c.id))
    IN  /\ c.op = "DeleteSession" /\ c.pc = "GET"
        /\ proc' = IF f THEN Return(p, "DeleteSession", c.id, "nil", TRUE, {})
                   ELSE IF ~reply.ok
                   THEN Return(p, "DeleteSession", c.id, "nil", FALSE, {})
                   ELSE Goto(proc, p, "DEL", "DeleteSession", c.id, reply.str, {})
        /\ lastDel' = NoDel
        /\ UNCHANGED <<svars, rvars, hvars, ivars>>

\* DeleteSession, third command: DEL of the pointer key.
DeleteSessionDELPointer(p, f) ==
    LET c == proc[p].cur
    IN  /\ c.op = "DeleteSession" /\ c.pc = "DEL"
        /\ db' = IF f THEN db ELSE DEL(db, {sessionToGroupKey(c.id)})
        /\ proc' = IF f THEN Return(p, "DeleteSession", c.id, "StoreError", TRUE, {})
                   ELSE Goto(proc, p, "SREM", "DeleteSession", c.id, c.gstr, {})
        /\ lastDel' = NoDel
        /\ UNCHANGED <<sessionDuration, now, ret, named, fresh, rvars, hvars, ivars>>

\* DeleteSession, fourth command: SREM of both keys from the group's set.
DeleteSessionSREM(p, f) ==
    LET c == proc[p].cur
    IN  /\ c.op = "DeleteSession" /\ c.pc = "SREM"
        /\ db' = IF f THEN db
                 ELSE SREM(db, groupKey(c.gstr),
                           {sessionKey(c.id), sessionToGroupKey(c.id)})
        /\ proc' = Return(p, "DeleteSession", c.id,
                          IF f THEN "StoreError" ELSE "nil", f, {})
        /\ lastDel' = NoDel
        /\ UNCHANGED <<sessionDuration, now, ret, named, fresh, rvars, hvars, ivars>>

\* InvalidateSessions, first command: the group is normalised, then
\* SMEMBERS of its set.
InvalidateSessionsSMEMBERS(p, groupId, f) ==
    LET conv == interfaceToString(groupId)
    IN  /\ proc[p].cur.pc = "idle"
        /\ proc' = IF conv.err # "nil"
                   THEN Return(p, "InvalidateSessions", <<>>, conv.err, FALSE, {})
                   ELSE IF f
                   THEN Return(p, "InvalidateSessions", <<>>, "StoreError", TRUE, {})
                   ELSE Goto(proc, p, "del", "InvalidateSessions", <<>>, conv.str,
                             SMEMBERS(db, groupKey(conv.str)))
        /\ lastDel' = NoDel
        /\ UNCHANGED <<svars, rvars, hvars, ivars>>

\* A DEL that reads the group's set again as it deletes.
InvalidateSessionsKeys_Reread(d, gKey, members) == {gKey} \cup SMEMBERS(d, gKey)

\* The keys InvalidateSessions hands to DEL: the group key and the members
\* that SMEMBERS returned.
InvalidateSessionsKeys(d, gKey, members) == {gKey} \cup members

\* InvalidateSessions, second command: one DEL.
InvalidateSessionsDEL(p, f) ==
    LET c == proc[p].cur
        keys == InvalidateSessionsKeys(db, groupKey(c.gstr), c.members)
    IN  /\ c.op = "InvalidateSessions" /\ c.pc = "del"
        /\ db' = IF f THEN db ELSE DEL(db, keys)
        /\ proc' = Return(p, "InvalidateSessions", <<>>,
                          IF f THEN "StoreError" ELSE "nil", f, c.between)
        /\ lastDel' = IF f THEN NoDel
                      ELSE [op |-> "DEL",
                            asked |-> {groupKey(c.gstr)} \cup c.members,
                            before |-> DOMAIN db]
        /\ UNCHANGED <<sessionDuration, now, ret, named, fresh, rvars, hvars, ivars>>

\* One command of one goroutine; f tells whether the command fails.
Command(p, f) ==
    \/ \E i \in SessionIDs : SessionGET(p, i, f)
    \/ \E i \in SessionIDs, g \in ConcGroups : SetSessionSETEX(p, i, g, "1", f)
    \/ SetSessionSETEXPointer(p, f)
    \/ SetSessionSADD(p, f)
    \/ SetSessionEXPIRE(p, f)
    \/ \E i \in SessionIDs : DeleteSessionDEL(p, i, f)
    \/ DeleteSessionGET(p, f)
    \/ DeleteSessionDELPointer(p, f)
    \/ DeleteSessionSREM(p, f)
    \/ \E g \in ConcGroups : InvalidateSessionsSMEMBERS(p, g, f)
    \/ InvalidateSessionsDEL(p, f)

\* Concurrent calls, no command fails.
ConcNext == \E p \in Procs : Command(p, FALSE)

\* The calls of one goroutine, any command may fail.
FailNext == \E f \in BOOLEAN : Command(1, f)

(***************************************************************************)
(* The specifications.                                                     *)
(***************************************************************************)
Init == SInit /\ RInit /\ CInit /\ HInit /\ IInit

Spec == Init /\ [][SNext]_vars

SpecRL == Init /\ [][RNext]_vars

\* The rate limiter when every call asks for a capacity of one token.
OneTokenNext ==
    \/ \E p \in Callers, c \in Clients : RateLimitCountNow(p, c, 1, 1)
    \/ \E p \in Callers : RateLimitCountScript(p)
    \/ \E d \in TimeSteps : Advance(d)

SpecOneToken == Init /\ [][OneTokenNext]_vars

\* The rate limiter when the calls of a client ask for a capacity of one
\* token or for the big one.
ExpiryNext ==
    \/ \E p \in Callers, c \in Clients, n \in {1, BigCapacity} :
          RateLimitCountNow(p, c, 1, n)
    \/ \E p \in Callers : RateLimitCountScript(p)
    \/ \E d \in TimeSteps : Advance(d)

SpecExpiry == Init /\ [][ExpiryNext]_vars

\* The rate limiter under the calls of one goroutine for one client, all
\* with a rate of half a token a nanosecond and a capacity of one token:
\* the time stamps of the calls never decrease.
RateNext ==
    \/ \E c \in Clients : RateLimitCountNow(1, c, 1, 1)
    \/ RateLimitCountScript(1)
    \/ \E d \in TimeSteps : Advance(d)

SpecRate == Init /\ [][RateNext]_vars

(***************************************************************************)
(* TestCappedSessions: many sessions set into one group, which is then     *)
(* invalidated.                                                            *)
(***************************************************************************)
CapGroup == TextGroup(MakeID(1))

CapNext ==
    \/ \E i \in CapSessionIDs : SetSession(i, CapGroup, "1")
    \/ InvalidateSessions(CapGroup)

SpecCap == Init /\ [][CapNext]_vars

\* The session store under concurrent calls.
SpecConc == Init /\ [][ConcNext]_vars

\* Concurrent SetSession and DeleteSession calls, no command fails.
OverlapCommand(p) ==
    \/ \E i \in SessionIDs, g \in ConcGroups : SetSessionSETEX(p, i, g, "1", FALSE)
    \/ SetSessionSETEXPointer(p, FALSE)
    \/ SetSessionSADD(p, FALSE)
    \/ SetSessionEXPIRE(p, FALSE)
    \/ \E i \in SessionIDs : DeleteSessionDEL(p, i, FALSE)
    \/ DeleteSessionGET(p, FALSE)
    \/ DeleteSessionDELPointer(p, FALSE)
    \/ DeleteSessionSREM(p, FALSE)

OverlapNext == \E p \in Procs : OverlapCommand(p)

SpecOverlap == Init /\ [][OverlapNext]_vars

\* The session store when its commands may fail.
SpecFail == Init /\ [][FailNext]_vars

\* The HTTP handlers, and the ID codecs.
SpecHTTP == Init /\ [][HNext]_vars

SpecID == Init /\ [][INext]_vars

(***************************************************************************)
(* A store with a session duration of two seconds, and sessions set into   *)
(* and deleted from one group as the clock goes.                           *)
(***************************************************************************)
\* SessionStoreOptions.SessionDuration, in seconds.
LongSessionDuration == 2

InitTTL ==
    /\ sessionDuration = LongSessionDuration
    /\ db = EmptyDB
    /\ now = 0
    /\ ret = NoRet
    /\ named = {}
    /\ fresh = Forget(<<>>, {})
    /\ RInit /\ CInit /\ HInit /\ IInit

TTLNext ==
    \/ \E i \in SessionIDs, p \in Payloads : SetSession(i, CapGroup, p)
    \/ \E i \in SessionIDs : DeleteSession(i)
    \/ Tick

SpecTTL == InitTTL /\ [][TTLNext]_vars

(***************************************************************************)
(* Properties of the session store.                                        *)
(***************************************************************************)
\* The sessions whose most recent SetSession named group g and still stands.
Assigned(g) ==
    {i \in DOMAIN fresh : fresh[i].grouped /\ fresh[i].g = g}

\* Every member of g's set is a key of a session assigned to g.
NoStaleMembers(g) ==
    \A k \in SMEMBERS(db, groupKey(g)) :
        \E i \in Assigned(g) : k \in {sessionKey(i), sessionToGroupKey(i)}

\* C1: round trip.  While the most recent SetSession(id, group, p) stands
\* (it returned no error, its TTL has not elapsed, and neither
\* DeleteSession(id) nor InvalidateSessions on its group has run since),
\* Session(id) returns no error and the payload p.
C1_RoundTrip ==
    /\ \A i \in DOMAIN fresh :
          SessionCall(db, i) = [err |-> "nil", val |-> fresh[i].p]
    /\ (ret.op = "Session" /\ ret.id \in DOMAIN fresh)
          => (ret.err = "nil" /\ ret.val = fresh[ret.id].p)

\* C2: session isolation.  Session(b) fails with the not-found error for a
\* session ID b that no SetSession has named, and a SetSession on another
\* ID a never changes what Session(b) returns.
C2_Isolation ==
    /\ \A b \in SessionIDs \ named : SessionCall(db, b).err = "ErrNil"
    /\ (ret.op = "Session" /\ ret.id \notin named) => ret.err = "ErrNil"
    /\ \A a \in SessionIDs, b \in SessionIDs, g \in GroupArgs, p \in Payloads :
          a # b => SessionCall(SetSessionCall(db, a, g, p, now).db, b)
                     = SessionCall(db, b)

\* C2's case: a session is stored, and Session on an ID that was never
\* named has just failed with the not-found error.
C2_Witness ==
    /\ ret.op = "Session" /\ ret.err = "ErrNil" /\ ret.id \notin named
    /\ \E a \in named : Exists(db, sessionKey(a))

\* C3: group accounting.  Once both session IDs have been set, a group
\* whose set holds no stale entry enumerates exactly as many members as it
\* has sessions: 2 after SetSession(id1, G, p1) and SetSession(id2, G, p2),
\* 1 after a following DeleteSession(id1).
C3_GroupAccounting ==
    \A g \in GroupStrs :
        (named = SessionIDs /\ NoStaleMembers(g))
            => Cardinality(SMEMBERS(db, groupKey(g))) = Cardinality(Assigned(g))

\* C4: capped groups.  No group ever holds more than MaxSessions sessions
\* after a SetSession returns.
C4_Capped ==
    \A g \in GroupStrs :
        Cardinality({i \in CapSessionIDs :
                        sessionKey(i) \in SMEMBERS(db, groupKey(g))}) <= MaxSessions

\* C5: group invalidation.  After InvalidateSessions(G) returned no error,
\* the group key and every key that was in G's set are gone, and Session
\* fails with the not-found error for every session that was a member.
C5_Invalidate ==
    /\ (ret.op = "InvalidateSessions" /\ ret.err = "nil") =>
          /\ ~Exists(db, groupKey(ret.g))
          /\ \A k \in ret.members : ~Exists(db, k)
          /\ \A i \in SessionIDs :
                sessionKey(i) \in ret.members => SessionCall(db, i).err = "ErrNil"
    /\ \A g \in GroupArgs :
          LET r == InvalidateSessionsCall(db, g)
              gKey == groupKey(interfaceToString(g).str)
          IN  r.err = "nil" =>
                /\ ~Exists(r.db, gKey)
                /\ \A k \in SMEMBERS(db, gKey) : ~Exists(r.db, k)
                /\ \A i \in SessionIDs :
                      sessionKey(i) \in SMEMBERS(db, gKey)
                          => SessionCall(r.db, i).err = "ErrNil"

\* C5's case: InvalidateSessions has just deleted a group with the keys of
\* both sessions in it.
C5_Witness ==
    /\ ret.op = "InvalidateSessions" /\ ret.err = "nil"
    /\ \A i \in SessionIDs : sessionKey(i) \in ret.members

\* C6: DeleteSession is idempotent.  It returns no error for any session
\* ID (never set, deleted, expired, set without a group), and a second
\* DeleteSession right after the first returns no error and leaves the
\* store as it is.
C6_DeleteIdempotent ==
    /\ ret.op = "DeleteSession" => ret.err = "nil"
    /\ \A i \in SessionIDs :
          LET r1 == DeleteSessionCall(db, i)
              r2 == DeleteSessionCall(r1.db, i)
          IN  r1.err = "nil" /\ r2.err = "nil" /\ r2.db = r1.db

\* C6's case: DeleteSession has just run on an ID that no SetSession ever
\* named, while another session is stored in a group.
C6_Witness ==
    /\ ret.op = "DeleteSession" /\ ret.err = "nil" /\ ret.id \notin named
    /\ \E a \in named : Exists(db, sessionToGroupKey(a))

(***************************************************************************)
(* Properties of the rate limiter.                                         *)
(***************************************************************************)
\* C7: token bucket with capacity 1.  The first call of a client with no
\* stored bucket is allowed; a second call with no elapsed time after an
\* allowed one is denied with RateLimitExceeded; a call made at least
\* 1/rate after the last allowed one is allowed again.
C7_OneToken ==
    last.op = "script" =>
        /\ ~last.existed => last.out = "nil"
        /\ (last.existed /\ last.t1 = last.t0 /\ last.allowedBefore = last.t0)
              => last.out = "RateLimitExceeded"
        /\ (last.allowedBefore > 0
                /\ (last.t1 - last.allowedBefore) * last.rate >= TokenDen)
              => last.out = "nil"

\* C8: token range.  The token count stored for a bucket is never below 0
\* nor above the capacity of the call that stored it.
C8_TokenRange ==
    /\ \A k \in DOMAIN buckets : buckets[k].b >= 0
    /\ (last.op = "script" /\ last.wrote)
          => (last.after >= 0 /\ last.after <= last.capacity)

\* C9: monotonic-time guard.  A call whose time stamp is not after the
\* stored one of an existing bucket does not refill: the count stored
\* after it is not above the count b0 stored before, it is b0 - 1 if the
\* call was allowed and b0 if it was not.
C9_NoRefill ==
    (last.op = "script" /\ last.existed /\ last.t1 <= last.t0) =>
        /\ HMGET(buckets, rateLimitKey(last.client)).ok
        /\ HMGET(buckets, rateLimitKey(last.client)).b = last.after
        /\ last.after <= last.b0
        /\ last.out = "nil" => last.after = last.b0 - TokenDen
        /\ last.out # "nil" => last.after = last.b0

\* C9's case: a call stamped before the stored time stamp has just run on
\* a bucket that held tokens.
C9_Witness ==
    /\ last.op = "script" /\ last.existed
    /\ last.t1 < last.t0 /\ last.b0 > 0

\* C10: atomic calls.  Of the calls of one client that carry the same time
\* stamp and a capacity of N tokens, and run before the clock moves, at
\* most N are allowed.
C10_Atomic ==
    \A x \in Clients \X Capacities : allowedNow[x] <= x[2]

\* C10's case: of two calls made at the same instant with a capacity of one
\* token, one was allowed and the other has just been turned away.
C10_Witness ==
    /\ last.op = "script" /\ last.out # "nil"
    /\ last.t1 = nanos /\ last.capacity = TokenDen
    /\ allowedNow[<<last.client, 1>>] = 1

(***************************************************************************)
(* Properties of the handlers when commands fail or calls overlap.         *)
(***************************************************************************)
\* C11: store errors are surfaced.  A call of Session, SetSession,
\* DeleteSession or InvalidateSessions one of whose Redis commands failed
\* returns an error to its caller, never nil.
C11_ErrorsSurfaced ==
    \A p \in Procs : proc[p].res.failed => proc[p].res.err # "nil"

\* C17: the invalidation race is silent.  Under concurrent calls that name
\* a supported group, no SetSession and no InvalidateSessions returns an
\* error, and the DEL of InvalidateSessions leaves every key in place that
\* is neither the group key nor a member its SMEMBERS returned: a session
\* set in between is not deleted.
C17_SilentRace ==
    /\ \A p \in Procs :
          proc[p].res.op \in {"SetSession", "InvalidateSessions", "DeleteSession"}
              => proc[p].res.err = "nil"
    /\ lastDel.op = "DEL" =>
          \A k \in lastDel.before \ lastDel.asked : Exists(db, k)

\* C17's case: InvalidateSessions(G) has just returned, a SetSession(id, G, p)
\* that began between its SMEMBERS and its DEL has returned too, both
\* without error, and Session(id) succeeds.
C17_Witness ==
    \E p \in Procs, q \in Procs, i \in SessionIDs :
        /\ p # q /\ lastDel.op = "DEL"
        /\ proc[p].cur.pc = "idle" /\ proc[q].cur.pc = "idle"
        /\ proc[p].res.op = "InvalidateSessions" /\ proc[p].res.err = "nil"
        /\ i \in proc[p].res.between
        /\ proc[q].res.op = "SetSession" /\ proc[q].res.id = i
        /\ proc[q].res.err = "nil"
        /\ SessionCall(db, i).err = "nil"

\* C12: TTL triad.  The two membership entries of a session are in its
\* group's set exactly when the session key and the pointer key of the
\* session exist, also after other sessions were added to the group.
C12_TTLTriad ==
    \A i \in SessionIDs :
        LET members == SMEMBERS(db, groupKey(interfaceToString(CapGroup).str))
        IN  (sessionKey(i) \in members /\ sessionToGroupKey(i) \in members)
                <=> (Exists(db, sessionKey(i)) /\ Exists(db, sessionToGroupKey(i)))

(***************************************************************************)
(* Properties of the HTTP handlers.                                        *)
(***************************************************************************)
\* C13: AuthenticationHandler gates the wrapped handler.  The handler is
\* served exactly when the authentication function returned authentic with
\* no error; on an error the status is 500, on not authentic without error
\* it is 401, and the handler is not served in either case.  With
\* BasicAuthentication over the single-user authenticator a request is
\* authentic only if the credentials it carries are the configured user
\* name and password, with BearerAuthentication over the single-token
\* authenticator only if it presents the configured token.
C13_Gate ==
    hreq.wrapper = "AuthenticationHandler" =>
        /\ (hresp.served = "handler") <=> (hreq.authentic /\ hreq.err = "nil")
        /\ hresp.served # "fallback"
        /\ hreq.err # "nil" =>
              (hresp.status = StatusInternalServerError /\ hresp.served = "none")
        /\ (hreq.err = "nil" /\ ~hreq.authentic) =>
              (hresp.status = StatusUnauthorized /\ hresp.served = "none")
        /\ (hreq.fn.kind = "Basic" /\ hreq.fn.a = "single" /\ hreq.authentic) =>
              hreq.req.creds = {<<ConfUsername, ConfPassword>>}
        /\ (hreq.fn.kind = "Bearer" /\ hreq.fn.a = "single" /\ hreq.authentic) =>
              ConfToken \in hreq.req.tokens

\* C13's case: a request with the configured Basic credentials has just
\* been handed to the wrapped handler.
C13_Witness ==
    /\ hreq.wrapper = "AuthenticationHandler"
    /\ hreq.fn.kind = "Basic" /\ hreq.fn.a = "single"
    /\ hreq.req.creds = {<<ConfUsername, ConfPassword>>}
    /\ hresp.served = "handler"

\* C14: AuthenticationFallbackHandler serves a request by one target.
\* Without an error an authentic request goes to the main handler and a
\* request that is not authentic to the fallback handler; on an error
\* neither is served and the status is 500.
C14_OneTarget ==
    hreq.wrapper = "AuthenticationFallbackHandler" =>
        /\ (hreq.err = "nil" /\ hreq.authentic) => hresp.served = "handler"
        /\ (hreq.err = "nil" /\ ~hreq.authentic) => hresp.served = "fallback"
        /\ hreq.err # "nil" =>
              (hresp.served = "none" /\ hresp.status = StatusInternalServerError)

\* C14's case: a request presenting another token than the configured one
\* has just been handed to the fallback handler.
C14_Witness ==
    /\ hreq.wrapper = "AuthenticationFallbackHandler"
    /\ hreq.fn.kind = "Bearer" /\ hreq.fn.a = "single"
    /\ hreq.req.tokens = {OtherToken}
    /\ hresp.served = "fallback"

(***************************************************************************)
(* Properties of the ID codecs.                                            *)
(***************************************************************************)
\* C15: ID round trip.  For every ID, UnmarshalText of its MarshalText and
\* UnmarshalBinary of its MarshalBinary succeed and give the ID back,
\* whatever the target held; String is the text of MarshalText; the
\* encodings of two different IDs differ and decode to different IDs.
\* UnmarshalText of a hex text that decodes to another number of bytes than
\* an ID has, and UnmarshalBinary of data of another length, fail with
\* InvalidIDError and leave the target as it was.
C15_RoundTrip ==
    /\ \A i \in IDs :
          /\ MarshalText(i).err = "nil" /\ MarshalBinary(i).err = "nil"
          /\ UnmarshalTextCall(target, MarshalText(i).text) = [err |-> "nil", id |-> i]
          /\ UnmarshalBinaryCall(target, MarshalBinary(i).data)
                = [err |-> "nil", id |-> i]
          /\ String(i) = MarshalText(i).text
    /\ \A i \in IDs, j \in IDs :
          i # j =>
            /\ MarshalText(i).text # MarshalText(j).text
            /\ UnmarshalTextCall(target, MarshalText(i).text).id
                  # UnmarshalTextCall(target, MarshalText(j).text).id
            /\ UnmarshalBinaryCall(target, MarshalBinary(i).data).id
                  # UnmarshalBinaryCall(target, MarshalBinary(j).data).id
    /\ (idret.op = "UnmarshalText" /\ HexDecode(idret.text).err = "nil"
            /\ Len(HexDecode(idret.text).data) # IDLen)
          => (idret.err = "InvalidIDError" /\ target = idret.before)
    /\ (idret.op = "UnmarshalBinary" /\ Len(idret.data) # IDLen)
          => (idret.err = "InvalidIDError" /\ target = idret.before)
    /\ (idret.op = "UnmarshalText" /\ idret.err = "nil")
          => target = HexDecode(idret.text).data
    /\ (idret.op = "UnmarshalBinary" /\ idret.err = "nil") => target = idret.data

\* C15's case: UnmarshalText of a text one byte short has just failed with
\* InvalidIDError on a target that held an ID.
C15_Witness ==
    /\ idret.op = "UnmarshalText" /\ idret.err = "InvalidIDError"
    /\ Len(idret.text) = 2 * IDLen - 2
    /\ idret.before # ZeroID /\ target = idret.before

(***************************************************************************)
(* More properties of the session store.                                   *)
(***************************************************************************)
\* C16: DeleteSession group cleanup.  When the pointer key of id names
\* group G, then after DeleteSession(id) the session key and the pointer
\* key of id are gone and neither is in G's set, the other members of G's
\* set are as they were, and every other key (the keys of the other
\* sessions, the sets of the other groups) is as it was; when there is no
\* pointer key, nothing but the session key changes.
C16_DeleteCleanup ==
    /\ \A i \in SessionIDs :
          LET sKey == sessionKey(i)
              sgKey == sessionToGroupKey(i)
              pointer == GET(db, sgKey)
              gKey == groupKey(pointer.str)
              r == DeleteSessionCall(db, i)
          IN  /\ r.err = "nil"
              /\ ~Exists(r.db, sKey) /\ ~Exists(r.db, sgKey)
              /\ pointer.ok =>
                    /\ SMEMBERS(r.db, gKey) = SMEMBERS(db, gKey) \ {sKey, sgKey}
                    /\ \A k \in (DOMAIN db) \ {sKey, sgKey, gKey} :
                          Exists(r.db, k) /\ r.db[k] = db[k]
                    /\ Exists(r.db, gKey) => r.db[gKey].exp = db[gKey].exp
              /\ ~pointer.ok =>
                    \A k \in (DOMAIN db) \ {sKey} : Exists(r.db, k) /\ r.db[k] = db[k]
              /\ DOMAIN r.db \subseteq DOMAIN db
    /\ (ret.op = "DeleteSession" /\ ret.g # <<>>) =>
          /\ ~Exists(db, sessionKey(ret.id))
          /\ ~Exists(db, sessionToGroupKey(ret.id))
          /\ SMEMBERS(db, groupKey(ret.g)) \subseteq
                ret.members \ {sessionKey(ret.id), sessionToGroupKey(ret.id)}

\* C16's case: DeleteSession has just taken a session out of a group that
\* still holds the entries of another session.
C16_Witness ==
    /\ ret.op = "DeleteSession" /\ ret.g # <<>>
    /\ sessionKey(ret.id) \in ret.members
    /\ \E j \in SessionIDs \ {ret.id} :
          /\ sessionKey(j) \in SMEMBERS(db, groupKey(ret.g))
          /\ Exists(db, sessionKey(j))

\* C20: single group ownership.  The keys of a session are in the set of
\* at most one group, the group its pointer key names, and
\* InvalidateSessions(G) leaves readable every session whose most recent
\* SetSession, still standing, named a group other than G.
C20_SingleGroup ==
    /\ \A i \in SessionIDs :
          LET holders == {g \in GroupStrs :
                             \/ sessionKey(i) \in SMEMBERS(db, groupKey(g))
                             \/ sessionToGroupKey(i) \in SMEMBERS(db, groupKey(g))}
              pointer == GET(db, sessionToGroupKey(i))
          IN  /\ Cardinality(holders) <= 1
              /\ \A g \in holders : pointer.ok /\ pointer.str = g
    /\ \A g \in GroupArgs, i \in DOMAIN fresh :
          LET r == InvalidateSessionsCall(db, g)
          IN  (r.err = "nil" /\ fresh[i].grouped
                  /\ fresh[i].g # interfaceToString(g).str)
                => SessionCall(r.db, i).err = "nil"

\* C21: no partial write on a rejected group identifier.  A SetSession
\* that returns the error of an unsupported group identifier leaves the
\* store as it was, and so does an InvalidateSessions that returns it.
C21_NoPartialWrite ==
    [][(/\ now' = now
        /\ ret'.op \in {"SetSession", "InvalidateSessions"}
        /\ ret'.err = "unsupported") => db' = db]_vars

(***************************************************************************)
(* More properties of the rate limiter.                                    *)
(***************************************************************************)
\* The refill time of a bucket holding b units, in milliseconds rounded up:
\* (capacity - b) / rate nanoseconds.
RefillMillis(capacity, b, rate) == CeilDiv(capacity - b, rate * NanosPerMilli)

\* C18: bucket expiry equals refill time.  A call that was allowed or
\* denied has stored (t1, b1) and set the bucket's time to live to the time
\* b1 takes to refill to the capacity at the rate, in the milliseconds of
\* PEXPIRE.
C18_ExpiryIsRefill ==
    (last.op = "script" /\ last.out \in {"nil", "RateLimitExceeded"}) =>
        LET k == rateLimitKey(last.client)
        IN  /\ last.wrote
            /\ k \in DOMAIN buckets
            /\ buckets[k].t = last.t1 /\ buckets[k].b = last.after
            /\ buckets[k].exp =
                  nanos + RefillMillis(last.capacity, last.after, last.rate)
                             * NanosPerMilli

\* The reference step: the count after the refill, before a token is taken.
ReferenceCount(existed, t0, b0, t1, rate, capacity) ==
    IF ~existed THEN capacity
    ELSE IF t1 > t0 THEN Min(capacity, b0 + (t1 - t0) * rate)
    ELSE b0

\* C19: the call matches the reference token-bucket step.  With b the
\* reference count, the call is allowed and stores (t1, b - 1) if b > 0,
\* and returns RateLimitExceeded and stores (t1, b) otherwise.
C19_Reference ==
    last.op = "script" =>
        LET k == rateLimitKey(last.client)
            b == ReferenceCount(last.existed, last.t0, last.b0, last.t1,
                                last.rate, last.capacity)
        IN  /\ (last.out = "nil") <=> (b > 0)
            /\ b <= 0 => last.out = "RateLimitExceeded"
            /\ last.wrote /\ k \in DOMAIN buckets
            /\ buckets[k].t = last.t1
            /\ buckets[k].b = IF b > 0 THEN b - TokenDen ELSE b

\* C22: rate bound.  Of the calls of one client with a fixed rate and
\* capacity and time stamps that never decrease, at most
\* capacity + rate * T are allowed in an interval of length T; so when a
\* call that runs at its time stamp t1 is allowed and the allowed call
\* before it was at t, the two of them are within
\* capacity + rate * (t1 - t).
C22_RateBound ==
    (last.op = "script" /\ last.out = "nil" /\ last.t1 = nanos
        /\ last.allowedBefore > 0 /\ last.allowedBefore <= last.t1)
      => 2 * TokenDen
            <= last.capacity + last.rate * (last.t1 - last.allowedBefore)

\* C23: readable grouped sessions stay invalidatable.  When no call is in
\* progress after concurrent SetSession and DeleteSession calls that all
\* name group G, every session that Session reads has its session key in
\* G's set, and an InvalidateSessions(G) that follows makes it unreadable.
C23_Invalidatable ==
    (\A p \in Procs : proc[p].cur.pc = "idle") =>
        \A i \in SessionIDs :
            SessionCall(db, i).err = "nil" =>
                /\ sessionKey(i)
                      \in SMEMBERS(db, groupKey(interfaceToString(CapGroup).str))
                /\ SessionCall(InvalidateSessionsCall(db, CapGroup).db, i).err
                      = "ErrNil"

====
